---- MODULE Spec2Model ----
(***************************************************************************)
(* A model of the host side of the path tracer:                            *)
(*   - shared_structs/src/lib.rs : the BVHNode record, its accessors and   *)
(*     mutators (specification SpecNode);                                  *)
(*   - src/main.rs : the sample/bounce dispatch loop of main, the command  *)
(*     stream it feeds, the blocking readback and the normalisation        *)
(*     (specification SpecRun).                                            *)
(*                                                                         *)
(* A u32 is a pair <<hi, lo>> of 16-bit halves, so that the full 32-bit    *)
(* width is kept (value = hi * 2^16 + lo).  An f32 is the record           *)
(* [bits |-> u32] of its IEEE-754 bit pattern.                             *)
(***************************************************************************)
EXTENDS Integers, Sequences, FiniteSets

VARIABLES
    node,        \* the BVHNode under test: [aabb_min, aabb_max], each a Vec4 of f32
    call,        \* the last call made on node: [op, arg, ret]
    width,       \* config.width
    height,      \* config.height
    samples,     \* let samples
    bounces,     \* let bounces
    pc,          \* where main is: "raygen", "raytrace", "material", "readback", "done"
    sample,      \* the outer loop's counter
    bounce,      \* the inner loop's counter
    issued,      \* every dispatch enqueued so far, in program order
    status,      \* status[i] of issued[i] on the device: "queued", "running", "done"
    output,      \* the contents of output_buffer (accumulated radiance of one pixel)
    host_access, \* every host read or write of a mutable device buffer so far
    image        \* image_buffer: the normalised value, a quotient [num, den]

nodeVars == <<node, call>>
runVars == <<width, height, samples, bounces, pc, sample, bounce, issued, status,
             output, host_access, image>>
vars == <<node, call, width, height, samples, bounces, pc, sample, bounce, issued,
          status, output, host_access, image>>

(***************************************************************************)
(* Bounds of the model.                                                    *)
(***************************************************************************)
MaxIndex == 2
MaxSamples == 2
MaxBounces == 2
MaxGroups == 2

(***************************************************************************)
(* 32-bit words.                                                           *)
(***************************************************************************)
Half == 2^16

U32OfNat(n) == <<n \div Half, n % Half>>

U32_MAX == <<Half - 1, Half - 1>>

U32_ZERO == <<0, 0>>

\* u32 + 1 in a build without overflow checks: modulo 2^32
WrappingSucc(u) ==
    IF u[2] < Half - 1 THEN <<u[1], u[2] + 1>>
    ELSE IF u[1] < Half - 1 THEN <<u[1] + 1, 0>>
    ELSE <<0, 0>>

\* the mathematical u + 1, as <<carry, hi, lo>>: one bit wider than a u32
ExactSucc(u) ==
    IF u[2] < Half - 1 THEN <<0, u[1], u[2] + 1>>
    ELSE IF u[1] < Half - 1 THEN <<0, u[1] + 1, 0>>
    ELSE <<1, 0, 0>>

Widen(u) == <<0, u[1], u[2]>>

\* core::mem::transmute between f32 and u32: the same 32 bits, retyped
transmute_f32_to_u32(f) == f.bits

transmute_u32_to_f32(u) == [bits |-> u]

\* f32 constants, by bit pattern
F32_ZERO == [bits |-> <<0, 0>>]
F32_INFINITY == [bits |-> <<32640, 0>>]
F32_NEG_INFINITY == [bits |-> <<65408, 0>>]
F32_ONE == [bits |-> <<16256, 0>>]
F32_TWO == [bits |-> <<16384, 0>>]
F32_NEG_ONE == [bits |-> <<49024, 0>>]
F32_HALF == [bits |-> <<16128, 0>>]

(***************************************************************************)
(* `v as f32`: the numeric conversion of an integer to the nearest f32     *)
(* (round to nearest, ties to even).  The code never uses it; it is what a *)
(* numeric cast in place of the transmute would store.                     *)
(***************************************************************************)
RECURSIVE MsbPos(_)
MsbPos(n) == IF n <= 1 THEN 0 ELSE 1 + MsbPos(n \div 2)

\* the f32 bits of sign 0, exponent e (unbiased), 23-bit fraction m
F32Pack(e, m) == <<(e + 127) * 128 + (m \div Half), m % Half>>

\* round the 32-bit value hi * 2^16 + lo, whose top bit is bit e >= 24
RoundWide(hi, lo, e) ==
    LET sh == e - 23                      \* bits dropped, 1..8
        keepLo == lo \div (2^sh)
        rest == lo % (2^sh)
        half == 2^(sh - 1)
        mant == (hi - 2^(e - 16)) * 2^(16 - sh) + keepLo   \* 23-bit fraction
        up == rest > half \/ (rest = half /\ mant % 2 = 1)
    IN  IF ~up THEN F32Pack(e, mant)
        ELSE IF mant + 1 < 2^23 THEN F32Pack(e, mant + 1)
        ELSE F32Pack(e + 1, 0)

u32_as_f32(u) ==
    IF u = <<0, 0>> THEN F32_ZERO
    ELSE IF u[1] = 0
         THEN LET e == MsbPos(u[2])
              IN  [bits |-> F32Pack(e, (u[2] - 2^e) * 2^(23 - e))]
         ELSE LET e == 16 + MsbPos(u[1])
              IN  IF e <= 23
                  THEN [bits |-> F32Pack(e, ((u[1] - 2^(e - 16)) * Half + u[2]) * 2^(23 - e))]
                  ELSE [bits |-> RoundWide(u[1], u[2], e)]

(***************************************************************************)
(* shared_structs/src/lib.rs: BVHNode.                                     *)
(* A Vec4 is <<x, y, z, w>>, a Vec3 is <<x, y, z>>, of f32.                *)
(***************************************************************************)
BVHNode_default ==
    [aabb_min |-> <<F32_INFINITY, F32_INFINITY, F32_INFINITY, F32_ZERO>>,
     aabb_max |-> <<F32_NEG_INFINITY, F32_NEG_INFINITY, F32_NEG_INFINITY, F32_ZERO>>]

xyz(v4) == <<v4[1], v4[2], v4[3]>>

\* Immutable access
triangle_count(n) == transmute_f32_to_u32(n.aabb_min[4])

left_node_index(n) == transmute_f32_to_u32(n.aabb_max[4])

\* self.left_node_index() + 1 on u32.  With overflow checks (a debug build) the
\* addition panics at u32::MAX; without them (a release build) it wraps to 0.
\* Both builds are outcomes.
right_node_index(n) ==
    IF left_node_index(n) = U32_MAX
    THEN {[kind |-> "panic", val |-> U32_ZERO],
          [kind |-> "ok", val |-> WrappingSucc(left_node_index(n))]}
    ELSE {[kind |-> "ok", val |-> WrappingSucc(left_node_index(n))]}

first_triangle_index(n) == transmute_f32_to_u32(n.aabb_max[4])

aabb_min(n) == xyz(n.aabb_min)

aabb_max(n) == xyz(n.aabb_max)

\* a > b on u32
U32Gt(a, b) == a[1] > b[1] \/ (a[1] = b[1] /\ a[2] > b[2])

is_leaf(n) == U32Gt(triangle_count(n), U32_ZERO)

\* Mutable access
set_triangle_count_numeric(n, v) ==
    [n EXCEPT !.aabb_min[4] = u32_as_f32(v)]

set_triangle_count(n, v) ==
    [n EXCEPT !.aabb_min[4] = transmute_u32_to_f32(v)]

set_left_node_index(n, v) ==
    [n EXCEPT !.aabb_max[4] = transmute_u32_to_f32(v)]

set_first_triangle_index(n, v) ==
    [n EXCEPT !.aabb_max[4] = transmute_u32_to_f32(v)]

\* a set_aabb_min that assigns the whole Vec4 (aabb_min.extend(0.0))
set_aabb_min_whole(n, v) ==
    [n EXCEPT !.aabb_min = <<v[1], v[2], v[3], F32_ZERO>>]

set_aabb_min(n, v) ==
    [n EXCEPT !.aabb_min[1] = v[1], !.aabb_min[2] = v[2], !.aabb_min[3] = v[3]]

set_aabb_max(n, v) ==
    [n EXCEPT !.aabb_max[1] = v[1], !.aabb_max[2] = v[2], !.aabb_max[3] = v[3]]

(***************************************************************************)
(* The values the calls are made with.                                     *)
(***************************************************************************)
U32Vals ==
    {U32OfNat(k) : k \in 0..MaxIndex}
        \cup {U32_MAX, <<Half - 1, Half - 2>>, <<0, Half - 1>>, <<256, 1>>,
              <<16256, 0>>, <<32640, 0>>}

Vec3Vals ==
    {<<F32_INFINITY, F32_INFINITY, F32_INFINITY>>,
     <<F32_NEG_INFINITY, F32_NEG_INFINITY, F32_NEG_INFINITY>>,
     <<F32_ZERO, F32_ZERO, F32_ZERO>>,
     <<F32_ONE, F32_TWO, F32_NEG_ONE>>,
     <<F32_NEG_ONE, F32_HALF, F32_TWO>>}

NoArg == <<>>
NoRet == [kind |-> "unit", val |-> <<>>]
Ok(v) == [kind |-> "ok", val |-> v]

Panicked == call.ret.kind = "panic"

(***************************************************************************)
(* One action per method of BVHNode.  A panic ends the process.            *)
(***************************************************************************)
NodeInit ==
    /\ node = BVHNode_default
    /\ call = [op |-> "default", arg |-> NoArg, ret |-> NoRet]

Getter(name, r) ==
    /\ ~Panicked
    /\ call' = [op |-> name, arg |-> NoArg, ret |-> r]
    /\ node' = node
    /\ UNCHANGED runVars

Setter(name, a, n) ==
    /\ ~Panicked
    /\ call' = [op |-> name, arg |-> a, ret |-> NoRet]
    /\ node' = n
    /\ UNCHANGED runVars

TriangleCount == Getter("triangle_count", Ok(triangle_count(node)))

LeftNodeIndex == Getter("left_node_index", Ok(left_node_index(node)))

RightNodeIndex == \E r \in right_node_index(node) : Getter("right_node_index", r)

FirstTriangleIndex == Getter("first_triangle_index", Ok(first_triangle_index(node)))

AabbMin == Getter("aabb_min", Ok(aabb_min(node)))

AabbMax == Getter("aabb_max", Ok(aabb_max(node)))

IsLeaf == Getter("is_leaf", Ok(is_leaf(node)))

SetTriangleCount == \E v \in U32Vals : Setter("set_triangle_count", v, set_triangle_count(node, v))

SetLeftNodeIndex == \E v \in U32Vals : Setter("set_left_node_index", v, set_left_node_index(node, v))

SetFirstTriangleIndex ==
    \E v \in U32Vals : Setter("set_first_triangle_index", v, set_first_triangle_index(node, v))

SetAabbMin == \E v \in Vec3Vals : Setter("set_aabb_min", v, set_aabb_min(node, v))

SetAabbMax == \E v \in Vec3Vals : Setter("set_aabb_max", v, set_aabb_max(node, v))

NodeNext ==
    \/ TriangleCount
    \/ LeftNodeIndex
    \/ RightNodeIndex
    \/ FirstTriangleIndex
    \/ AabbMin
    \/ AabbMax
    \/ IsLeaf
    \/ SetTriangleCount
    \/ SetLeftNodeIndex
    \/ SetFirstTriangleIndex
    \/ SetAabbMin
    \/ SetAabbMax


(***************************************************************************)
(* src/main.rs: the buffers, the three kernels and their bindings.         *)
(***************************************************************************)
WorkgroupWidth == 64

Buffers == {"ray_origin", "ray_dir", "throughput", "rng", "output"}

Stages == {"RayGeneration", "Intersection", "Shading"}

\* RayGenKernel::new, RayTraceKernel::new, MaterialKernel::new: bind_buffer calls
Bindings(stage) ==
    CASE stage = "RayGeneration" ->
            <<[buffer |-> "ray_origin", usage |-> "ReadWrite"],
              [buffer |-> "ray_dir", usage |-> "ReadWrite"],
              [buffer |-> "throughput", usage |-> "ReadWrite"],
              [buffer |-> "rng", usage |-> "ReadOnly"]>>
      [] stage = "Intersection" ->
            <<[buffer |-> "ray_origin", usage |-> "ReadWrite"],
              [buffer |-> "ray_dir", usage |-> "ReadWrite"]>>
      [] stage = "Shading" ->
            <<[buffer |-> "ray_origin", usage |-> "ReadWrite"],
              [buffer |-> "ray_dir", usage |-> "ReadWrite"],
              [buffer |-> "throughput", usage |-> "ReadWrite"],
              [buffer |-> "rng", usage |-> "ReadWrite"],
              [buffer |-> "output", usage |-> "ReadWrite"]>>

Binds(stage, b) == \E k \in 1..Len(Bindings(stage)) : Bindings(stage)[k].buffer = b

BindsReadWrite(stage, b) ==
    \E k \in 1..Len(Bindings(stage)) :
        Bindings(stage)[k] = [buffer |-> b, usage |-> "ReadWrite"]

\* a Framework of its own for every kernel
KernelFrameworkOwn(stage) == stage

\* the Framework (device and command queue) a kernel is built on: all three
\* are built on the one `fw` of main
KernelFramework(stage) == "fw"

\* the work-group count with the x count rounded up
WorkGroupsCeil(w, h) == <<(w + WorkgroupWidth - 1) \div WorkgroupWidth, h, 1>>

\* the arguments of kernel.enqueue: (config.width / 64, config.height, 1), in u32
WorkGroups(w, h) == <<w \div WorkgroupWidth, h, 1>>

\* `for _ in 0..bounces` entered although no bounce is left
BounceLoopCondInclusive(b, n) == b <= n

\* `for _ in 0..bounces`: another iteration?
BounceLoopCond(b, n) == b < n

\* `for _ in 0..=samples`: one iteration too many
SampleLoopCondInclusive(s, n) == s <= n

\* `for _ in 0..samples`: another iteration?
SampleLoopCond(s, n) == s < n

\* x / (samples * bounces as f32)
NormalizePerBounce(x, s, b) == [num |-> x, den |-> s * b]

\* x / (samples as f32); the quotient is kept exact, as numerator and denominator.
\* b is the bounce count, which the code does not use here.
Normalize(x, s, b) == [num |-> x, den |-> s]

(***************************************************************************)
(* The configurations a run is started with.                               *)
(***************************************************************************)
Widths ==
    ({WorkgroupWidth * k + r : k \in 0..MaxGroups, r \in {0, 36, 63}} \ {0})
        \cup {1280}

Heights == {1, 2}

NoImage == [num |-> 0, den |-> 0]

RunInit ==
    /\ width \in Widths
    /\ height \in Heights
    /\ samples \in 1..MaxSamples
    /\ bounces \in 0..MaxBounces
    /\ pc = "raygen"
    /\ sample = 0
    /\ bounce = 0
    /\ issued = <<>>
    /\ status = <<>>
    /\ output = 0
    /\ host_access = <<>>
    /\ image = NoImage

\* main as the repository runs it: 1280 x 720, 128 samples, 4 bounces, not started
RunIdle ==
    /\ width = 1280
    /\ height = 720
    /\ samples = 128
    /\ bounces = 4
    /\ pc = "raygen"
    /\ sample = 0
    /\ bounce = 0
    /\ issued = <<>>
    /\ status = <<>>
    /\ output = 0
    /\ host_access = <<>>
    /\ image = NoImage

(***************************************************************************)
(* The host: main's loop, one action per enqueue, and the readback.        *)
(***************************************************************************)
\* kernel.enqueue(...): the dispatch joins its framework's command stream
Enqueue(stage) ==
    /\ issued' = Append(issued, [stage |-> stage,
                                 groups |-> WorkGroups(width, height),
                                 stream |-> KernelFramework(stage)])
    /\ status' = Append(status, "queued")

\* where main goes once sample s has been completed
AfterSample(s) == IF SampleLoopCond(s, samples) THEN "raygen" ELSE "readback"

IssueRayGen ==
    /\ pc = "raygen"
    /\ Enqueue("RayGeneration")
    /\ bounce' = 0
    /\ IF BounceLoopCond(0, bounces)
       THEN pc' = "raytrace" /\ sample' = sample
       ELSE pc' = AfterSample(sample + 1) /\ sample' = sample + 1
    /\ UNCHANGED <<width, height, samples, bounces, output, host_access, image>>
    /\ UNCHANGED nodeVars

IssueRayTrace ==
    /\ pc = "raytrace"
    /\ Enqueue("Intersection")
    /\ pc' = "material"
    /\ UNCHANGED <<width, height, samples, bounces, sample, bounce, output,
                   host_access, image>>
    /\ UNCHANGED nodeVars

IssueMaterial ==
    /\ pc = "material"
    /\ Enqueue("Shading")
    /\ bounce' = bounce + 1
    /\ IF BounceLoopCond(bounce + 1, bounces)
       THEN pc' = "raytrace" /\ sample' = sample
       ELSE pc' = AfterSample(sample + 1) /\ sample' = sample + 1
    /\ UNCHANGED <<width, height, samples, bounces, output, host_access, image>>
    /\ UNCHANGED nodeVars

\* the device has completed every dispatch issued so far
DeviceIdle == \A i \in 1..Len(issued) : status[i] = "done"

\* a readback that does not wait for the device
ReadbackUnblocked ==
    /\ pc = "readback"
    /\ host_access' = Append(host_access,
                             [op |-> "read", buffer |-> "output", after |-> Len(issued)])
    /\ image' = Normalize(output, samples, bounces)
    /\ pc' = "done"
    /\ UNCHANGED <<width, height, samples, bounces, sample, bounce, issued, status,
                   output>>
    /\ UNCHANGED nodeVars

\* read_vec_blocking on mt.output_buffer, then the map over its elements
Readback ==
    /\ pc = "readback"
    /\ DeviceIdle
    /\ host_access' = Append(host_access,
                             [op |-> "read", buffer |-> "output", after |-> Len(issued)])
    /\ image' = Normalize(output, samples, bounces)
    /\ pc' = "done"
    /\ UNCHANGED <<width, height, samples, bounces, sample, bounce, issued, status,
                   output>>
    /\ UNCHANGED nodeVars

(***************************************************************************)
(* The device.  Dispatches of one command stream that touch a common       *)
(* buffer, one of them read-write, execute in the order they were issued;  *)
(* a dispatch may change only the buffers it binds read-write.             *)
(***************************************************************************)
Hazard(s, t) ==
    \E b \in Buffers :
        /\ Binds(s, b)
        /\ Binds(t, b)
        /\ (BindsReadWrite(s, b) \/ BindsReadWrite(t, b))

DeviceBegin ==
    /\ \E i \in 1..Len(issued) :
        /\ status[i] = "queued"
        /\ \A j \in 1..(i - 1) :
              (issued[j].stream = issued[i].stream
                  /\ Hazard(issued[j].stage, issued[i].stage))
                  => status[j] = "done"
        /\ status' = [status EXCEPT ![i] = "running"]
    /\ UNCHANGED <<width, height, samples, bounces, pc, sample, bounce, issued,
                   output, host_access, image>>
    /\ UNCHANGED nodeVars

\* what one Shading dispatch may add to the pixel's accumulator
Radiance == {0, 1}

DeviceEnd ==
    /\ \E i \in 1..Len(issued) :
        /\ status[i] = "running"
        /\ status' = [status EXCEPT ![i] = "done"]
        /\ IF BindsReadWrite(issued[i].stage, "output")
           THEN \E c \in Radiance : output' = output + c
           ELSE output' = output
    /\ UNCHANGED <<width, height, samples, bounces, pc, sample, bounce, issued,
                   host_access, image>>
    /\ UNCHANGED nodeVars

RunNext ==
    \/ IssueRayGen
    \/ IssueRayTrace
    \/ IssueMaterial
    \/ DeviceBegin
    \/ DeviceEnd
    \/ Readback

(***************************************************************************)
(* The specifications.                                                     *)
(***************************************************************************)
\* a BVHNode is exercised; main has not started
InitNode == NodeInit /\ RunIdle

\* main runs; the BVHNode stays as constructed
InitRun == RunInit /\ NodeInit

SpecNode == InitNode /\ [][NodeNext]_vars

SpecRun == InitRun /\ [][RunNext]_vars


(***************************************************************************)
(* Properties of the dispatch loop (SpecRun).                              *)
(***************************************************************************)
\* one sample: RayGeneration, then `b` times Intersection, Shading
SampleStages(b) ==
    [k \in 1..(1 + 2 * b) |->
        IF k = 1 THEN "RayGeneration"
        ELSE IF k % 2 = 0 THEN "Intersection" ELSE "Shading"]

\* the whole run: `s` samples, one after the other
ExpectedStages(s, b) ==
    [k \in 1..(s * (1 + 2 * b)) |-> SampleStages(b)[((k - 1) % (1 + 2 * b)) + 1]]

NumIssued(stage) == Cardinality({k \in 1..Len(issued) : issued[k].stage = stage})

LoopLeft == pc \in {"readback", "done"}

\* C1: the dispatches issued are, at every moment, a prefix of
\* (RayGeneration (Intersection Shading)^bounces)^samples, and the whole of it
\* once the loop is left; so a Shading directly follows an Intersection, nothing
\* of a sample precedes its RayGeneration, and the run issues `samples`
\* RayGeneration and `samples * bounces` Intersection and Shading dispatches.
C1_DispatchSequence ==
    LET exp == ExpectedStages(samples, bounces)
        n == samples * (1 + 2 * bounces)
    IN  /\ Len(issued) <= n
        /\ \A k \in 1..Len(issued) : issued[k].stage = exp[k]
        /\ \A k \in 1..Len(issued) :
              issued[k].stage = "Shading" =>
                  k > 1 /\ issued[k - 1].stage = "Intersection"
        /\ issued # <<>> => issued[1].stage = "RayGeneration"
        /\ LoopLeft <=> Len(issued) = n
        /\ LoopLeft =>
              /\ NumIssued("RayGeneration") = samples
              /\ NumIssued("Intersection") = samples * bounces
              /\ NumIssued("Shading") = samples * bounces

C1_Witness ==
    /\ pc = "done"
    /\ samples = 2
    /\ bounces = 2
    /\ [k \in 1..Len(issued) |-> issued[k].stage]
          = <<"RayGeneration", "Intersection", "Shading", "Intersection", "Shading",
              "RayGeneration", "Intersection", "Shading", "Intersection", "Shading">>

\* C2 as stated: every dispatch is invoked with (ceil(width / 64), height, 1).
C2_CeilGroups ==
    \A k \in 1..Len(issued) :
        issued[k].groups = <<(width + 63) \div 64, height, 1>>

\* C2 amended: every dispatch of every stage is invoked with
\* (floor(width / 64), height, 1); that is the rounded-up count exactly when
\* width is a multiple of 64, and one less than it otherwise.
C2_FloorGroups ==
    \A k \in 1..Len(issued) :
        /\ issued[k].groups = <<width \div 64, height, 1>>
        /\ width % 64 = 0 => issued[k].groups[1] * 64 = width
        /\ width % 64 # 0 => issued[k].groups[1] + 1 = (width + 63) \div 64

C2_Witness ==
    /\ width = 100
    /\ height = 2
    /\ pc = "done"
    /\ \A st \in Stages :
          \E k \in 1..Len(issued) :
              issued[k].stage = st /\ issued[k].groups = <<1, 2, 1>>

\* the pixel columns of the image that dispatch d reaches: column x belongs to
\* work group x \div 64 of its row
ColumnsCovered(d) == {x \in 0..(width - 1) : x \div 64 < d.groups[1]}

\* C3: a dispatch covers (work groups in x) * 64 columns: all `width` of them
\* when width is a multiple of 64, and floor(width / 64) * 64 otherwise, the
\* rightmost width mod 64 columns being left out.
C3_Coverage ==
    \A d \in {issued[k] : k \in 1..Len(issued)} :
        LET cov == ColumnsCovered(d)
        IN  /\ Cardinality(cov) = d.groups[1] * 64
            /\ width % 64 = 0 => cov = 0..(width - 1)
            /\ width % 64 # 0 =>
                  /\ Cardinality(cov) = (width \div 64) * 64
                  /\ (0..(width - 1)) \ cov = (width - (width % 64))..(width - 1)
                  /\ Cardinality((0..(width - 1)) \ cov) = width % 64

C3_Witness ==
    /\ width = 100
    /\ Len(issued) > 0
    /\ ColumnsCovered(issued[Len(issued)]) = 0..63

\* C6: with bounces = 0 only RayGeneration dispatches are issued, Shading is
\* the only stage that binds the output accumulator, and the accumulator is
\* still zero when it is read back.
C6_NoBounceNoRadiance ==
    /\ \A st \in Stages : Binds(st, "output") <=> st = "Shading"
    /\ bounces = 0 =>
          /\ \A k \in 1..Len(issued) : issued[k].stage = "RayGeneration"
          /\ output = 0
          /\ pc = "done" => image.num = 0 /\ Len(issued) = samples

C6_Witness ==
    /\ bounces = 0
    /\ samples = 2
    /\ pc = "done"
    /\ Len(issued) = 2
    /\ output = 0

\* C7: the finalised value is A / S, A the accumulator as read back and S the
\* number of sample iterations (RayGeneration dispatches), whatever the
\* bounce count.
C7_NormalizedBySamples ==
    pc = "done" =>
        /\ image.num = output
        /\ image.den = NumIssued("RayGeneration")
        /\ image.den = samples

C7_Witness ==
    /\ pc = "done"
    /\ samples = 2
    /\ bounces = 2
    /\ output = 3
    /\ image = [num |-> 3, den |-> 2]

Running == {i \in 1..Len(issued) : status[i] = "running"}

\* C9: all dispatches go to the one command stream, and at no moment do two
\* running dispatches bind the same buffer read-write.
C9_OneWriter ==
    /\ \A k \in 1..Len(issued) : issued[k].stream = "fw"
    /\ \A b \in Buffers :
          Cardinality({i \in Running : BindsReadWrite(issued[i].stage, b)}) <= 1

C9_Witness ==
    \E i \in 1..Len(issued) :
        \E j \in (i + 1)..Len(issued) :
            /\ status[i] = "running"
            /\ issued[i].stage = "Shading"
            /\ status[j] = "queued"
            /\ issued[j].stage = "RayGeneration"

(***************************************************************************)
(* Properties of BVHNode (SpecNode).                                       *)
(***************************************************************************)
\* C4 as stated: on an internal node right_node_index() returns
\* left_node_index() + 1, the sum taken in the integers, for every stored
\* left_node_index, and never aborts.
C4_RightIsLeftPlusOne ==
    (call.op = "right_node_index" /\ triangle_count(node) = U32_ZERO) =>
        /\ call.ret.kind = "ok"
        /\ Widen(call.ret.val) = ExactSucc(left_node_index(node))

\* C5: after set_triangle_count(v), triangle_count() is v; after
\* set_left_node_index(v), left_node_index() is v; after
\* set_first_triangle_index(v), first_triangle_index() is v; and the slot holds
\* the 32 bits of v themselves.
C5_RoundTrip ==
    /\ call.op = "set_triangle_count" =>
          /\ triangle_count(node) = call.arg
          /\ node.aabb_min[4].bits = call.arg
    /\ call.op = "set_left_node_index" =>
          /\ left_node_index(node) = call.arg
          /\ node.aabb_max[4].bits = call.arg
    /\ call.op = "set_first_triangle_index" =>
          /\ first_triangle_index(node) = call.arg
          /\ node.aabb_max[4].bits = call.arg

C5_Witness ==
    /\ call.op = "set_triangle_count"
    /\ call.arg = U32_MAX
    /\ triangle_count(node) = U32_MAX
    /\ left_node_index(node) = <<256, 1>>

\* what the payload accessors return
Payload(n) == <<triangle_count(n), left_node_index(n), first_triangle_index(n)>>

\* C10: a mutator changes its own slot only: set_aabb_min and set_aabb_max keep
\* triangle_count and left_node_index/first_triangle_index; set_triangle_count
\* keeps aabb_min, aabb_max and left_node_index/first_triangle_index;
\* set_left_node_index and set_first_triangle_index keep triangle_count,
\* is_leaf, aabb_min and aabb_max.
C10_Frame ==
    [][/\ call'.op \in {"set_aabb_min", "set_aabb_max"} =>
              Payload(node') = Payload(node)
       /\ call'.op = "set_triangle_count" =>
              /\ aabb_min(node') = aabb_min(node)
              /\ aabb_max(node') = aabb_max(node)
              /\ left_node_index(node') = left_node_index(node)
              /\ first_triangle_index(node') = first_triangle_index(node)
       /\ call'.op \in {"set_left_node_index", "set_first_triangle_index"} =>
              /\ triangle_count(node') = triangle_count(node)
              /\ is_leaf(node') = is_leaf(node)
              /\ aabb_min(node') = aabb_min(node)
              /\ aabb_max(node') = aabb_max(node)]_vars

C10_Witness ==
    /\ call.op = "set_aabb_min"
    /\ call.arg = <<F32_ONE, F32_TWO, F32_NEG_ONE>>
    /\ aabb_min(node) = <<F32_ONE, F32_TWO, F32_NEG_ONE>>
    /\ triangle_count(node) = U32_MAX
    /\ left_node_index(node) = <<0, 2>>


====
